---- MODULE Spec2Model ----
(***************************************************************************)
(* State-machine model of src/app.js: the dashboard page (fetch from the   *)
(* document store, processData, the multi-select filters, the median       *)
(* helpers) and the admin page (spreadsheet upload in chunked batches).    *)
(*                                                                         *)
(* JavaScript values are records [t, n, s]: t is the runtime type tag, n   *)
(* the numeric payload, s the text payload as a sequence of one-character  *)
(* strings, so that trim, toLowerCase, replace and parseFloat are computed *)
(* character by character.  Epoch times are counted in hours.              *)
(***************************************************************************)
EXTENDS Integers, Sequences, FiniteSets, TLC

-----------------------------------------------------------------------------
(* Bounds of the model *)

\* longest spreadsheet / query result drawn in Init
MaxRows == 3
\* uploads of the same file in one admin session
MaxUploads == 2
\* longest query result when the filters are exercised
MaxFilterRows == 2
\* filter clicks (toggle or clear) in one dashboard session
MaxUserActions == 2
\* longest query result when the charts are exercised
MaxChartRows == 3
\* longest array handed to median
MaxArr == 3
\* records per batch; the source uses 400 (src/app.js:666), scaled down
batchSize == 2

-----------------------------------------------------------------------------
(* JavaScript values *)

JsVal(t, n, s) == [t |-> t, n |-> n, s |-> s]
Undefined == JsVal("undefined", 0, <<>>)
Null == JsVal("null", 0, <<>>)
Bool(b) == JsVal("boolean", IF b THEN 1 ELSE 0, <<>>)
Num(n) == JsVal("number", n, <<>>)
NaN == JsVal("nan", 0, <<>>)
Infinity == JsVal("inf", 0, <<>>)
NegInfinity == JsVal("neginf", 0, <<>>)
Str(s) == JsVal("string", 0, s)
\* a native Date at epoch hour h, the invalid Date, a Firestore Timestamp
DateOf(h) == JsVal("date", h, <<>>)
InvalidDate == JsVal("invaliddate", 0, <<>>)
Timestamp(h) == JsVal("timestamp", h, <<>>)

\* typeof v
TypeOf(v) ==
    CASE v.t \in {"number", "nan", "inf", "neginf"} -> "number"
      [] v.t = "string" -> "string"
      [] v.t = "boolean" -> "boolean"
      [] v.t = "undefined" -> "undefined"
      [] OTHER -> "object"

\* ToBoolean(v), as used by ||, && and !
Truthy(v) ==
    CASE v.t \in {"undefined", "null", "nan"} -> FALSE
      [] v.t = "boolean" -> v.n = 1
      [] v.t = "number" -> v.n # 0
      [] v.t = "string" -> v.s # <<>>
      [] OTHER -> TRUE

\* a || b
Or(a, b) == IF Truthy(a) THEN a ELSE b

-----------------------------------------------------------------------------
(* Text *)

Digits == <<"0", "1", "2", "3", "4", "5", "6", "7", "8", "9">>
IsDigit(c) == \E d \in 1..10 : Digits[d] = c
DigitVal(c) == (CHOOSE d \in 1..10 : Digits[d] = c) - 1

UpperCase == <<"A", "C", "E", "M", "N", "O", "S", "Y">>
LowerCase == <<"a", "c", "e", "m", "n", "o", "s", "y">>
ToLowerChar(c) ==
    IF \E k \in 1..Len(UpperCase) : UpperCase[k] = c
    THEN LowerCase[CHOOSE k \in 1..Len(UpperCase) : UpperCase[k] = c]
    ELSE c
ToUpperChar(c) ==
    IF \E k \in 1..Len(LowerCase) : LowerCase[k] = c
    THEN UpperCase[CHOOSE k \in 1..Len(LowerCase) : LowerCase[k] = c]
    ELSE c
\* String.prototype.toLowerCase / toUpperCase
toLowerCase(s) == [k \in 1..Len(s) |-> ToLowerChar(s[k])]
toUpperCase(s) == [k \in 1..Len(s) |-> ToUpperChar(s[k])]

IsSpace(c) == c = " "
RECURSIVE TrimStart(_)
TrimStart(s) == IF s # <<>> /\ IsSpace(Head(s)) THEN TrimStart(Tail(s)) ELSE s
RECURSIVE TrimEnd(_)
TrimEnd(s) ==
    IF s # <<>> /\ IsSpace(s[Len(s)]) THEN TrimEnd(SubSeq(s, 1, Len(s) - 1)) ELSE s
\* String.prototype.trim
trim(s) == TrimEnd(TrimStart(s))

IsCurrencyChar(c) == c \in {"$", ","}
IsNotCurrencyChar(c) == ~IsCurrencyChar(c)
\* s.replace(/[$,]/g, '')
StripCurrency(s) == SelectSeq(s, IsNotCurrencyChar)

\* s.replace(/\//g, '_')
SlashToUnderscore(s) == [k \in 1..Len(s) |-> IF s[k] = "/" THEN "_" ELSE s[k]]

RECURSIVE DigitPrefix(_)
DigitPrefix(s) ==
    IF s # <<>> /\ IsDigit(Head(s)) THEN <<Head(s)>> \o DigitPrefix(Tail(s)) ELSE <<>>
RECURSIVE DigitsValue(_)
DigitsValue(ds) ==
    IF ds = <<>> THEN 0 ELSE 10 * DigitsValue(SubSeq(ds, 1, Len(ds) - 1)) + DigitVal(ds[Len(ds)])

InfinityText == <<"I", "n", "f", "i", "n", "i", "t", "y">>
StartsWith(s, p) == Len(s) >= Len(p) /\ SubSeq(s, 1, Len(p)) = p

\* parseFloat(s) on integer numerals: leading blanks, a sign, then the longest
\* run of digits (or the word Infinity); NaN when there is none
parseFloat(s) ==
    LET t == TrimStart(s)
        neg == t # <<>> /\ Head(t) = "-"
        u == IF t # <<>> /\ Head(t) \in {"-", "+"} THEN Tail(t) ELSE t
        ds == DigitPrefix(u)
    IN  IF StartsWith(u, InfinityText) THEN (IF neg THEN NegInfinity ELSE Infinity)
        ELSE IF ds = <<>> THEN NaN
        ELSE Num(IF neg THEN 0 - DigitsValue(ds) ELSE DigitsValue(ds))

\* Number(s) for text: blank is 0, and the whole trimmed text must be a numeral
StringToNumber(s) ==
    LET t == trim(s)
        neg == t # <<>> /\ Head(t) = "-"
        u == IF t # <<>> /\ Head(t) \in {"-", "+"} THEN Tail(t) ELSE t
        ds == DigitPrefix(u)
    IN  IF t = <<>> THEN Num(0)
        ELSE IF u = InfinityText THEN (IF neg THEN NegInfinity ELSE Infinity)
        ELSE IF ds = <<>> \/ ds # u THEN NaN
        ELSE Num(IF neg THEN 0 - DigitsValue(ds) ELSE DigitsValue(ds))

\* Number(v)
ToNumber(v) ==
    CASE v.t \in {"number", "nan", "inf", "neginf"} -> v
      [] v.t = "undefined" -> NaN
      [] v.t = "null" -> Num(0)
      [] v.t = "boolean" -> Num(v.n)
      [] v.t = "string" -> StringToNumber(v.s)
      [] v.t \in {"date", "timestamp"} -> Num(v.n)
      [] OTHER -> NaN

\* isNaN(v)
IsNaN(v) == ToNumber(v).t = "nan"
\* isFinite(v)
IsFinite(v) == ToNumber(v).t = "number"
\* v > 0
GreaterThanZero(v) ==
    LET x == ToNumber(v) IN x.t = "inf" \/ (x.t = "number" /\ x.n > 0)
\* v == null
LooseNull(v) == v.t \in {"undefined", "null"}

RECURSIVE NatToText(_)
NatToText(n) ==
    IF n < 10 THEN <<Digits[n + 1]>> ELSE NatToText(n \div 10) \o <<Digits[(n % 10) + 1]>>
IntToText(n) == IF n < 0 THEN <<"-">> \o NatToText(0 - n) ELSE NatToText(n)

\* String(v) and `${v}` for the primitives the pages handle
JsString(v) ==
    CASE v.t = "string" -> v.s
      [] v.t = "number" -> IntToText(v.n)
      [] v.t = "nan" -> <<"N", "a", "N">>
      [] v.t = "inf" -> InfinityText
      [] v.t = "neginf" -> <<"-">> \o InfinityText
      [] v.t = "boolean" -> IF v.n = 1 THEN <<"t", "r", "u", "e">> ELSE <<"f", "a", "l", "s", "e">>
      [] v.t = "null" -> <<"n", "u", "l", "l">>
      [] v.t = "undefined" -> <<"u", "n", "d", "e", "f", "i", "n", "e", "d">>

-----------------------------------------------------------------------------
(* Dates: epoch hours, the proleptic Gregorian calendar *)

\* days since 1970-01-01 of the civil date y-m-d
DaysFromCivil(y, m, d) ==
    LET yy == IF m <= 2 THEN y - 1 ELSE y
        era == yy \div 400
        yoe == yy - era * 400
        mp == IF m > 2 THEN m - 3 ELSE m + 9
        doy == (153 * mp + 2) \div 5 + d - 1
        doe == yoe * 365 + yoe \div 4 - yoe \div 100 + doy
    IN  era * 146097 + doe - 719468

\* the civil year of day number z (days since 1970-01-01)
YearOfDay(z) ==
    LET zz == z + 719468
        era == zz \div 146097
        doe == zz - era * 146097
        yoe == (doe - doe \div 1460 + doe \div 36524 - doe \div 146096) \div 365
        doy == doe - (365 * yoe + yoe \div 4 - yoe \div 100)
        mp == (5 * doy + 2) \div 153
        m == IF mp < 10 THEN mp + 3 ELSE mp - 9
    IN  yoe + era * 400 + (IF m <= 2 THEN 1 ELSE 0)

\* Date.prototype.getFullYear: the year on the host's clock, tz hours from UTC
getFullYear(h, tz) == YearOfDay((h + tz) \div 24)

\* the text is an ISO date YYYY-MM-DD
IsIsoDate(s) ==
    /\ Len(s) = 10
    /\ s[5] = "-" /\ s[8] = "-"
    /\ \A k \in {1, 2, 3, 4, 6, 7, 9, 10} : IsDigit(s[k])
    /\ DigitsValue(SubSeq(s, 6, 7)) \in 1..12
    /\ DigitsValue(SubSeq(s, 9, 10)) \in 1..28

\* new Date(v): a date-only ISO text is UTC midnight, a number is the epoch
\* value itself, null is the epoch, anything unparsable is the invalid Date
NewDate(v) ==
    CASE v.t = "date" -> v
      [] v.t = "invaliddate" -> v
      [] v.t = "number" -> DateOf(v.n)
      [] v.t = "null" -> DateOf(0)
      [] v.t = "boolean" -> DateOf(0)
      [] v.t = "string" ->
            IF IsIsoDate(v.s)
            THEN DateOf(24 * DaysFromCivil(DigitsValue(SubSeq(v.s, 1, 4)),
                                           DigitsValue(SubSeq(v.s, 6, 7)),
                                           DigitsValue(SubSeq(v.s, 9, 10))))
            ELSE InvalidDate
      [] OTHER -> InvalidDate

\* isNaN(d.getTime())
IsInvalidDate(d) == d.t = "invaliddate"

-----------------------------------------------------------------------------
(* Admin page: the field parsers, src/app.js 637-663 *)

UnknownText == <<"U", "n", "k", "n", "o", "w", "n">>
YesText == <<"Y", "e", "s">>
NoText == <<"N", "o">>

parsePrice(val) ==
    IF TypeOf(val) = "number" THEN val
    ELSE IF TypeOf(val) = "string" THEN parseFloat(StripCurrency(val.s))
    ELSE Num(0)

parseDate(val) ==
    IF val.t \in {"date", "invaliddate"} THEN val
    ELSE IF TypeOf(val) \in {"string", "number"} THEN NewDate(val)
    ELSE InvalidDate

normalizeYesNo(val) ==
    IF ~Truthy(val) THEN Str(NoText)
    ELSE LET s == toUpperCase(trim(JsString(val)))
         IN  IF s = <<"Y">> \/ s = <<"Y", "E", "S">> THEN Str(YesText) ELSE Str(NoText)

normalizeCityLimits(val) ==
    IF ~Truthy(val) THEN Str(UnknownText)
    ELSE LET s == toUpperCase(trim(JsString(val)))
         IN  IF s = <<"Y">> \/ s = <<"Y", "E", "S">> THEN Str(YesText)
             ELSE IF s = <<"N">> \/ s = <<"N", "O">> THEN Str(NoText)
             ELSE Str(UnknownText)

-----------------------------------------------------------------------------
(* Admin page: normalisation of the spreadsheet rows, src/app.js 674-710.  *)
(* A row is a record of the cells the page reads (Undefined when the       *)
(* column is absent).  Days On Market, Subdivision, Beds and Full Baths    *)
(* are coerced like Apx SQFT and City and are left out.                    *)

\* lines 675-677: the price the row is judged by
dimPriceOfRow(row) ==
    LET a == IF TypeOf(row.Price) = "string"
             THEN parseFloat(StripCurrency(row.Price.s)) ELSE row.Price
    IN  IF LooseNull(a) \/ IsNaN(a) THEN Num(0) ELSE a

\* line 699: (row['Address'] || '') must have a trim method
AddressForKey(row) == Or(row.Address, Str(<<>>))
RowThrows(row) ==
    /\ ~IsInvalidDate(parseDate(row.ClosedDate))
    /\ TypeOf(AddressForKey(row)) # "string"

\* line 699
uniqueKey(row, dateObj, dimPrice) ==
    Str(IntToText(dateObj.n) \o <<"-">> \o toLowerCase(trim(AddressForKey(row).s))
        \o <<"-">> \o JsString(dimPrice))

\* lines 685-700: the record literal
RecordOfRow(row, tz) ==
    LET dimPrice == dimPriceOfRow(row)
        dateObj == parseDate(row.ClosedDate)
    IN  [address |-> Str(trim(JsString(
                        Or(Or(Or(row.Address, row.StreetName), row.StreetAddress), Str(<<>>))))),
         date |-> dateObj,
         price |-> ToNumber(dimPrice),
         pricePerSqFt |-> ToNumber(Or(parsePrice(row.PricePerSQFT), Num(0))),
         sqFt |-> ToNumber(Or(row.ApxSQFT, Num(0))),
         city |-> Str(trim(JsString(Or(row.City, Str(UnknownText))))),
         year |-> Num(getFullYear(dateObj.n, tz)),
         newConstruction |-> normalizeYesNo(row.NewConstruction),
         insideCityLimits |->
            normalizeCityLimits(Or(row.InsideCityLimits, row.InsideCityLimit)),
         uniqueKey |-> uniqueKey(row, dateObj, dimPrice)]

\* JSON.stringify then JSON.parse of one field: NaN and the infinities become null
JsonValue(v) == IF v.t \in {"nan", "inf", "neginf"} THEN Null ELSE v

\* lines 705-706: the JSON round trip, the Date restored afterwards
Plain(record) ==
    [f \in DOMAIN record |-> IF f = "date" THEN record.date ELSE JsonValue(record[f])]

\* lines 674-708: what the map callback returns for one row
MappedRow(row, tz) ==
    IF IsInvalidDate(parseDate(row.ClosedDate)) THEN Null ELSE Plain(RecordOfRow(row, tz))

\* line 710: the filter callback
KeepMapped(d) == d # Null /\ GreaterThanZero(d.price) /\ d.year.n > 2000

\* lines 674-710 when no callback throws
CleanRecordsOf(rows, tz) ==
    LET mapped == [k \in 1..Len(rows) |-> MappedRow(rows[k], tz)]
    IN  SelectSeq(mapped, KeepMapped)

\* lines 674-710 raise a TypeError
MapThrows(rows) == \E k \in 1..Len(rows) : RowThrows(rows[k])

\* line 727: the key made safe for a document id
safeKey(record) == SlashToUnderscore(record.uniqueKey.s)

-----------------------------------------------------------------------------
(* Dashboard page: parsing the query result, src/app.js 101-120 *)

\* lines 107-112
DateOfDoc(d) ==
    IF Truthy(d.date) /\ d.date.t = "timestamp" THEN DateOf(d.date.n) ELSE NewDate(d.date)

HasValidDate(d) == ~IsInvalidDate(DateOfDoc(d))
WithDate(d) == [d EXCEPT !.date = DateOfDoc(d)]

\* lines 101-120: the rows handed to processData
ParsedData(docs) ==
    LET kept == SelectSeq(docs, HasValidDate)
    IN  [k \in 1..Len(kept) |-> WithDate(kept[k])]

-----------------------------------------------------------------------------
(* Dashboard page: processData, src/app.js 144-186 *)

\* lines 146-155
dimPriceOfDoc(row) ==
    LET a == IF TypeOf(row.price) = "string"
             THEN parseFloat(StripCurrency(row.price.s)) ELSE row.price
    IN  IF LooseNull(a) \/ IsNaN(a) THEN Num(0) ELSE a

\* lines 157-171
NormalizedDoc(row, tz) ==
    [address |-> Or(row.address, Str(<<>>)),
     date |-> row.date,
     price |-> dimPriceOfDoc(row),
     pricePerSqFt |-> Or(row.pricePerSqFt, Num(0)),
     sqFt |-> Or(row.sqFt, Num(0)),
     city |-> Or(row.city, Str(UnknownText)),
     year |-> Num(getFullYear(row.date.n, tz)),
     newConstruction |-> Or(row.newConstruction, Str(NoText)),
     insideCityLimits |-> Or(row.insideCityLimits, Str(UnknownText))]

\* line 172, with the host's time zone
KeepNormalized(d, tz) ==
    ~IsNaN(d.price) /\ GreaterThanZero(d.price) /\ getFullYear(d.date.n, tz) > 2000

\* lines 144-172
NormalizedData(rows, tz) ==
    LET mapped == [k \in 1..Len(rows) |-> NormalizedDoc(rows[k], tz)]
        Keep(d) == KeepNormalized(d, tz)
    IN  SelectSeq(mapped, Keep)

\* line 181
DedupKey(d) ==
    IntToText(d.date.n) \o <<"-">> \o toLowerCase(trim(d.address.s))
        \o <<"-">> \o JsString(d.price)

\* line 181 raises a TypeError: d.address has no trim method
DedupThrows(records) == \E k \in 1..Len(records) : TypeOf(records[k].address) # "string"

\* lines 178-186: filter with the seen set
RECURSIVE DedupFrom(_, _)
DedupFrom(records, seen) ==
    IF records = <<>> THEN <<>>
    ELSE LET key == DedupKey(Head(records))
         IN  IF key \in seen THEN DedupFrom(Tail(records), seen)
             ELSE <<Head(records)>> \o DedupFrom(Tail(records), seen \cup {key})
\* a dedup that keeps the last record of each fingerprint instead of the first
RECURSIVE DeduplicatedKeepingLast(_)
DeduplicatedKeepingLast(records) ==
    IF records = <<>> THEN <<>>
    ELSE LET key == DedupKey(Head(records))
             later == {DedupKey(records[k]) : k \in 2..Len(records)}
         IN  IF key \in later THEN DeduplicatedKeepingLast(Tail(records))
             ELSE <<Head(records)>> \o DeduplicatedKeepingLast(Tail(records))
Deduplicated(records) == DedupFrom(records, {})

-----------------------------------------------------------------------------
(* Dashboard page: the filters, src/app.js 193-200, 243-337 *)

Includes(array, v) == \E k \in 1..Len(array) : array[k] = v

\* [...new Set(values)]: the distinct values in order of first occurrence
RECURSIVE Distinct(_)
Distinct(values) ==
    IF values = <<>> THEN <<>>
    ELSE LET rest == Distinct(SubSeq(values, 1, Len(values) - 1))
             last == values[Len(values)]
         IN  IF Includes(rest, last) THEN rest ELSE Append(rest, last)

Column(records, field) == [k \in 1..Len(records) |-> records[k][field]]

StateKeys == {"selectedYears", "selectedCities", "selectedNewConstruction", "selectedCityLimits"}
FieldOf(stateKey) ==
    CASE stateKey = "selectedYears" -> "year"
      [] stateKey = "selectedCities" -> "city"
      [] stateKey = "selectedNewConstruction" -> "newConstruction"
      [] stateKey = "selectedCityLimits" -> "insideCityLimits"

\* lines 29-34
EmptyFilterState ==
    [selectedYears |-> <<>>, selectedCities |-> <<>>,
     selectedNewConstruction |-> <<>>, selectedCityLimits |-> <<>>]

\* lines 194-198
DefaultFilterState(records) ==
    [selectedYears |-> Distinct(Column(records, "year")),
     selectedCities |-> Distinct(Column(records, "city")),
     selectedNewConstruction |-> <<Str(YesText), Str(NoText)>>,
     selectedCityLimits |-> Distinct(Column(records, "insideCityLimits"))]

\* lines 244-247, 265-270: one checked box per distinct value, its value
\* attribute the text of the option
RenderedCheckboxes(records) ==
    [key \in StateKeys |->
        LET options == Distinct(Column(records, FieldOf(key)))
        IN  [text \in {JsString(options[k]) : k \in 1..Len(options)} |-> TRUE]]

\* lines 290-292: the value a checkbox stands for
CheckboxValue(text) ==
    IF ~IsNaN(parseFloat(text)) /\ IsFinite(Str(text)) THEN parseFloat(text) ELSE Str(text)

\* lines 294-298
ToggledSelection(selection, val, checked) ==
    IF checked
    THEN IF Includes(selection, val) THEN selection ELSE Append(selection, val)
    ELSE LET Other(item) == item # val IN SelectSeq(selection, Other)

\* a filter that forgets the city-limits dimension
RecordMatchesThreeDimensions(d, fs) ==
    /\ Includes(fs.selectedYears, d.year)
    /\ Includes(fs.selectedCities, d.city)
    /\ Includes(fs.selectedNewConstruction, d.newConstruction)
\* lines 331-337
RecordMatches(d, fs) ==
    LET yearMatch == Includes(fs.selectedYears, d.year)
        cityMatch == Includes(fs.selectedCities, d.city)
        ncMatch == Includes(fs.selectedNewConstruction, d.newConstruction)
        iclMatch == Includes(fs.selectedCityLimits, d.insideCityLimits)
    IN  yearMatch /\ cityMatch /\ ncMatch /\ iclMatch

FilterRecords(records, fs) ==
    LET Test(d) == RecordMatches(d, fs) IN SelectSeq(records, Test)

-----------------------------------------------------------------------------
(* The median helpers, src/app.js 352-357, 378-383, 477-482 *)

RECURSIVE InsertAscending(_, _)
InsertAscending(sorted, x) ==
    IF sorted = <<>> THEN <<x>>
    ELSE IF x < Head(sorted) THEN <<x>> \o sorted
    ELSE <<Head(sorted)>> \o InsertAscending(Tail(sorted), x)
\* sort((a, b) => a - b)
RECURSIVE SortAscending(_)
SortAscending(a) ==
    IF a = <<>> THEN <<>>
    ELSE InsertAscending(SortAscending(SubSeq(a, 1, Len(a) - 1)), a[Len(a)])

\* a result x is the fraction num / den
Whole(x) == [num |-> x, den |-> 1]
Half(x) == [num |-> x, den |-> 2]

\* lines 352-357
median_updateKPIs(a) ==
    IF Len(a) = 0 THEN Whole(0)
    ELSE LET sorted == SortAscending(a)
             mid == Len(sorted) \div 2
         IN  IF Len(sorted) % 2 # 0 THEN Whole(sorted[mid + 1])
             ELSE Half(sorted[mid] + sorted[mid + 1])

\* a median that takes the upper middle element of an even-length array
medianUpperMiddle(a) ==
    IF Len(a) = 0 THEN Whole(0)
    ELSE LET sorted == SortAscending(a) IN Whole(sorted[Len(sorted) \div 2 + 1])
\* lines 378-383
median_renderTrendChart(a) ==
    IF Len(a) = 0 THEN Whole(0)
    ELSE LET sorted == SortAscending(a)
             mid == Len(sorted) \div 2
         IN  IF Len(sorted) % 2 # 0 THEN Whole(sorted[mid + 1])
             ELSE Half(sorted[mid] + sorted[mid + 1])

\* lines 477-482
median_renderCityChart(a) ==
    IF Len(a) = 0 THEN Whole(0)
    ELSE LET sorted == SortAscending(a)
             mid == Len(sorted) \div 2
         IN  IF Len(sorted) % 2 # 0 THEN Whole(sorted[mid + 1])
             ELSE Half(sorted[mid] + sorted[mid + 1])

\* lines 354, 380, 479: sort works on the copy [...arr]; the caller's array after the call
ArrayAfterMedian(a) == a

-----------------------------------------------------------------------------
(* The charts, src/app.js 385-395 and 428-451 *)

\* the UTF-16 order of the characters chart keys are made of
CodeUnit(c) ==
    IF c = "-" THEN 45
    ELSE IF IsDigit(c) THEN 48 + DigitVal(c)
    ELSE IF c = "k" THEN 107
    ELSE 128

\* a < b in the default order of Array.prototype.sort (by code units)
RECURSIVE TextLess(_, _)
TextLess(a, b) ==
    IF b = <<>> THEN FALSE
    ELSE IF a = <<>> THEN TRUE
    ELSE IF Head(a) = Head(b) THEN TextLess(Tail(a), Tail(b))
    ELSE CodeUnit(Head(a)) < CodeUnit(Head(b))

\* the civil month of day number z (days since 1970-01-01)
MonthOfDay(z) ==
    LET zz == z + 719468
        era == zz \div 146097
        doe == zz - era * 146097
        yoe == (doe - doe \div 1460 + doe \div 36524 - doe \div 146096) \div 365
        doy == doe - (365 * yoe + yoe \div 4 - yoe \div 100)
        mp == (5 * doy + 2) \div 153
    IN  IF mp < 10 THEN mp + 3 ELSE mp - 9

\* n in at least width digits, zero-padded
RECURSIVE Padded(_, _)
Padded(n, width) ==
    IF Len(NatToText(n)) >= width THEN NatToText(n)
    ELSE <<"0">> \o Padded(n, width - 1)

\* line 388: d.date.toISOString().slice(0, 7), the year and month in UTC
TrendKey(d) ==
    Padded(YearOfDay(d.date.n \div 24), 4) \o <<"-">> \o Padded(MonthOfDay(d.date.n \div 24), 2)

\* lines 386-391: the prices pushed under each key, keys in order of creation
RECURSIVE GroupedByMonth(_)
GroupedByMonth(data) ==
    IF data = <<>> THEN <<>>
    ELSE LET grouped == GroupedByMonth(SubSeq(data, 1, Len(data) - 1))
             d == data[Len(data)]
             key == TrendKey(d)
         IN  IF \E g \in 1..Len(grouped) : grouped[g].key = key
             THEN [g \in 1..Len(grouped) |->
                      IF grouped[g].key = key
                      THEN [grouped[g] EXCEPT !.prices = Append(@, ToNumber(d.price).n)]
                      ELSE grouped[g]]
             ELSE Append(grouped, [key |-> key, prices |-> <<ToNumber(d.price).n>>])

RECURSIVE InsertByKey(_, _)
InsertByKey(sorted, x) ==
    IF sorted = <<>> THEN <<x>>
    ELSE IF TextLess(x.key, Head(sorted).key) THEN <<x>> \o sorted
    ELSE <<Head(sorted)>> \o InsertByKey(Tail(sorted), x)
\* line 393: Object.keys(grouped).sort()
RECURSIVE SortedByKey(_)
SortedByKey(entries) ==
    IF entries = <<>> THEN <<>>
    ELSE InsertByKey(SortedByKey(SubSeq(entries, 1, Len(entries) - 1)), entries[Len(entries)])

\* lines 385-395 and 402-405: the labels and the values of the line chart
renderTrendChart(data) ==
    LET sorted == SortedByKey(GroupedByMonth(data))
    IN  [k \in 1..Len(sorted) |->
            [label |-> sorted[k].key, value |-> median_renderTrendChart(sorted[k].prices)]]

\* line 432: the width of a bin
binWidth == 50000

\* line 432: Math.floor(d.price / 50000) * 50000
BinOf(price) == (price \div binWidth) * binWidth

\* line 433
BinKey(bin) ==
    IntToText(bin \div 1000) \o <<"k", "-">> \o IntToText((bin + binWidth) \div 1000) \o <<"k">>

\* lines 431-434: the count under each key, keys in order of creation
RECURSIVE CountedBins(_)
CountedBins(data) ==
    IF data = <<>> THEN <<>>
    ELSE LET bins == CountedBins(SubSeq(data, 1, Len(data) - 1))
             key == BinKey(BinOf(ToNumber(data[Len(data)].price).n))
         IN  IF \E b \in 1..Len(bins) : bins[b].key = key
             THEN [b \in 1..Len(bins) |->
                      IF bins[b].key = key
                      THEN [bins[b] EXCEPT !.count = @ + 1] ELSE bins[b]]
             ELSE Append(bins, [key |-> key, count |-> 1])

\* a.split('k')[0]
RECURSIVE BeforeK(_)
BeforeK(key) ==
    IF key = <<>> \/ Head(key) = "k" THEN <<>> ELSE <<Head(key)>> \o BeforeK(Tail(key))

\* parseInt(s) in base 10: an optional sign and the longest run of digits
parseInt(s) ==
    LET t == TrimStart(s)
        neg == t # <<>> /\ Head(t) = "-"
        u == IF t # <<>> /\ Head(t) \in {"-", "+"} THEN Tail(t) ELSE t
        ds == DigitPrefix(u)
    IN  IF ds = <<>> THEN NaN
        ELSE Num(IF neg THEN 0 - DigitsValue(ds) ELSE DigitsValue(ds))

\* lines 437-439: the comparator is negative
LowerBoundLess(a, b) ==
    LET valA == parseInt(BeforeK(a))
        valB == parseInt(BeforeK(b))
    IN  ~IsNaN(valA) /\ ~IsNaN(valB) /\ valA.n - valB.n < 0

RECURSIVE InsertByLowerBound(_, _)
InsertByLowerBound(sorted, x) ==
    IF sorted = <<>> THEN <<x>>
    ELSE IF LowerBoundLess(x.key, Head(sorted).key) THEN <<x>> \o sorted
    ELSE <<Head(sorted)>> \o InsertByLowerBound(Tail(sorted), x)
\* a sort of the keys without the comparator, in the default order of text
SortedBinsAsText(bins) == SortedByKey(bins)
\* lines 436-440: Object.keys(bins).sort(comparator), a stable sort
RECURSIVE SortedBins(_)
SortedBins(bins) ==
    IF bins = <<>> THEN <<>>
    ELSE InsertByLowerBound(SortedBins(SubSeq(bins, 1, Len(bins) - 1)), bins[Len(bins)])

\* lines 428-451: the labels and the counts of the bar chart
renderDistChart(data) ==
    LET sorted == SortedBins(CountedBins(data))
    IN  [k \in 1..Len(sorted) |-> [label |-> sorted[k].key, count |-> sorted[k].count]]

-----------------------------------------------------------------------------
(* Admin page: batches, src/app.js 721-733 *)

Min(a, b) == IF a < b THEN a ELSE b

\* line 723: cleanRecords.slice(i, i + batchSize)
Chunk(records, i) == SubSeq(records, i + 1, Min(i + batchSize, Len(records)))

\* line 736
Percent(i, chunkLength, total) == (200 * (i + chunkLength) + total) \div (2 * total)

-----------------------------------------------------------------------------
(* State *)

VARIABLES
    page,              \* "dashboard", "admin" or "median": which part runs
    tz,                \* the host's offset from UTC, in hours
    \* dashboard page
    db,                \* the Firestore handle is initialised
    snapshot,          \* the documents the query returns
    pc,                \* where fetchDataFromFirestore / processData stands
    query,             \* the get() promise
    timer,             \* the 20 s timeout promise
    raceResult,        \* what Promise.race settled with
    rawData,           \* line 3
    normalizedData,    \* history: rawData as line 172 left it
    filterState,       \* lines 29-34
    checkboxes,        \* the rendered inputs and their checked flags
    filteredData,      \* the last filteredData of updateDashboard
    dashboardUpdated,  \* updateDashboard has run
    views,             \* what each view was last drawn from, and the charts drawn
    dashboardVisible,  \* #dashboard lost its hidden class
    errorMessage,      \* the message of "Error: ..." in loadingText, "" when none
    statusText,        \* #status-text
    userActions,       \* history: filter clicks so far
    \* admin page
    jsonData,          \* the rows of the chosen spreadsheet
    upc,               \* where uploadDataToFirestore stands
    cleanRecords,      \* line 674
    i,                 \* line 721
    addedCount,        \* line 667
    progress,          \* progressBar width, percent
    store,             \* the sales_data collection: document id -> fields
    uploadResult,      \* what showResult displayed: "success", or the error's message
    uploads,           \* history: uploads started
    committed,         \* history: offsets of the chunks committed by this upload
    storeAtStart,      \* history: the collection when this upload started
    firstSuccessStore, \* history: the collection when an upload first succeeded
    successes,         \* history: uploads that ended in success
    \* the median helpers
    arr,               \* the array handed to median
    medians            \* the result of each copy, once called

dashVars == <<db, snapshot, pc, query, timer, raceResult, rawData, normalizedData,
              filterState, checkboxes, filteredData, dashboardUpdated, views,
              dashboardVisible, errorMessage, statusText, userActions>>
adminVars == <<jsonData, upc, cleanRecords, i, addedCount, progress, store,
               uploadResult, uploads, committed, storeAtStart, firstSuccessStore, successes>>
medianVars == <<arr, medians>>
vars == <<page, tz, dashVars, adminVars, medianVars>>

-----------------------------------------------------------------------------
(* Admin page: document writes, src/app.js 725-732 *)

\* a fresh document per write, as collectionRef.doc() without a key gives
DocIdFresh(record) == safeKey(record) \o <<"#">> \o IntToText(uploads)
\* line 728: the document a record is written to
DocId(record) == safeKey(record)

\* lines 725-732: the sets of one batch applied in order, a later set of the
\* same document replacing an earlier one
RECURSIVE CommittedBatch(_, _)
CommittedBatch(docs, chunk) ==
    IF chunk = <<>> THEN docs
    ELSE CommittedBatch((DocId(Head(chunk)) :> Head(chunk)) @@ docs, Tail(chunk))

-----------------------------------------------------------------------------
(* Inputs *)

\* Central time and UTC
TzOffsets == {-6, 0}

HourOf(y, m, d) == 24 * DaysFromCivil(y, m, d)

Addr1 == <<"1", " ", "M">>
Addr1Padded == <<" ", "1", " ", "m", " ">>
Addr2 == <<"2", "/", "M">>
PriceText == <<"$", "2", "0", "0", ",", "0", "0", "0">>
May2022Text == <<"2", "0", "2", "2", "-", "0", "5", "-", "0", "1">>
Jan2001Text == <<"2", "0", "0", "1", "-", "0", "1", "-", "0", "1">>
JunkText == <<"n", "/", "a">>
CityText == <<"C", "o", "n">>
NumericCityText == <<"2", "0", "2", "0">>

\* a spreadsheet row with every column absent
BlankRow ==
    [Address |-> Undefined, StreetName |-> Undefined, StreetAddress |-> Undefined,
     ClosedDate |-> Undefined, Price |-> Undefined, PricePerSQFT |-> Undefined,
     ApxSQFT |-> Undefined, City |-> Undefined, NewConstruction |-> Undefined,
     InsideCityLimits |-> Undefined, InsideCityLimit |-> Undefined]

SheetRow(address, date, price, sqFt) ==
    [BlankRow EXCEPT !.Address = address, !.ClosedDate = date, !.Price = price,
                     !.ApxSQFT = sqFt]

\* the rows a spreadsheet is drawn from
AdminRows ==
    { SheetRow(Str(Addr1), Str(May2022Text), Str(PriceText), Num(1)),
      SheetRow(Str(Addr1), Str(May2022Text), Str(PriceText), Num(2)),
      [SheetRow(Undefined, DateOf(HourOf(2022, 5, 1)), Num(200000), Num(3))
          EXCEPT !.StreetName = Str(Addr1)],
      SheetRow(Num(12), DateOf(HourOf(2022, 5, 1)), Num(100), Num(4)),
      SheetRow(Str(Addr2), DateOf(HourOf(2000, 6, 15)), Num(100), Num(5)),
      [SheetRow(Str(Addr2), Str(Jan2001Text), Num(100), Str(JunkText))
          EXCEPT !.City = Num(5), !.NewConstruction = Str(<<"y">>),
                 !.InsideCityLimit = Str(<<"n", "o">>), !.PricePerSQFT = Str(<<"$", "9">>)],
      SheetRow(Str(Addr2), DateOf(HourOf(2022, 5, 1)), Str(<<"a", "b", "c">>), Num(7)),
      SheetRow(Str(Addr2), DateOf(HourOf(2022, 5, 1)), Num(-5), Num(8)),
      SheetRow(Num(12), Str(JunkText), Undefined, Num(9)) }

\* a stored document with every field absent
BlankDoc ==
    [address |-> Undefined, date |-> Undefined, price |-> Undefined,
     pricePerSqFt |-> Undefined, sqFt |-> Undefined, city |-> Undefined,
     newConstruction |-> Undefined, insideCityLimits |-> Undefined]

StoredDoc(address, date, price, sqFt) ==
    [BlankDoc EXCEPT !.address = address, !.date = date, !.price = price, !.sqFt = sqFt]

\* the documents a query result is drawn from
StoreDocs ==
    { StoredDoc(Str(Addr1), Timestamp(HourOf(2022, 5, 1)), Num(200000), Num(1)),
      [StoredDoc(Str(Addr1Padded), Timestamp(HourOf(2022, 5, 1)), Str(PriceText), Num(2))
          EXCEPT !.newConstruction = Str(<<"Y">>)],
      StoredDoc(Num(12), Timestamp(HourOf(2022, 5, 1)), Num(100), Num(3)),
      StoredDoc(Str(Addr2), Str(JunkText), Num(100), Num(4)),
      StoredDoc(Str(Addr2), Timestamp(HourOf(2000, 6, 15)), Num(100), Num(5)),
      [StoredDoc(Undefined, Str(Jan2001Text), Num(100), Str(JunkText))
          EXCEPT !.city = Str(CityText)],
      StoredDoc(Str(Addr2), Timestamp(HourOf(2022, 5, 1)), Str(<<"a", "b", "c">>), Num(7)),
      StoredDoc(Str(Addr2), Null, Num(5), Num(8)) }

FilterDoc(hour, city, newConstruction, insideCityLimits, price) ==
    [StoredDoc(Str(Addr1), Timestamp(hour), Num(price), Num(1))
        EXCEPT !.city = city, !.newConstruction = newConstruction,
               !.insideCityLimits = insideCityLimits]

\* well-formed documents that differ in the four filter dimensions
FilterDocs ==
    { FilterDoc(HourOf(2021, 6, 15), Str(CityText), Str(YesText), Str(YesText), 100),
      FilterDoc(HourOf(2022, 6, 15), Str(NumericCityText), Undefined, Undefined, 300) }

ChartDoc(hour, price) ==
    StoredDoc(Str(Addr1), Timestamp(hour), Num(price), Num(1))

\* sales around the bin edges and around the turn of a year
ChartDocs ==
    { ChartDoc(HourOf(2022, 1, 1), 10000),
      ChartDoc(HourOf(2022, 6, 15), 40000),
      ChartDoc(HourOf(2021, 12, 31) + 20, 60000),
      ChartDoc(HourOf(2022, 6, 15), 120000),
      ChartDoc(HourOf(2021, 6, 15), 50000) }

SeqsUpTo(S, n) == UNION {[1..k -> S] : k \in 0..n}

\* the numbers median is tried on
MedianValues == {100, 200, 300, 250}

-----------------------------------------------------------------------------
(* Initial states *)

\* a view that nothing was drawn in yet
Blank == [drawn |-> FALSE, records |-> <<>>, chart |-> <<>>]
NoViews == [kpi |-> Blank, trend |-> Blank, dist |-> Blank, city |-> Blank, table |-> Blank]
NoCheckboxes == [key \in StateKeys |-> <<>>]
NoMedians == [kpi |-> <<>>, trend |-> <<>>, city |-> <<>>]

\* the dashboard page at DOMContentLoaded (lines 3, 29-34, 37-39), the query
\* about to return one of snapshots
DashboardLoading(snapshots) ==
    /\ db \in BOOLEAN
    /\ snapshot \in snapshots
    /\ pc = "loading"
    /\ query = "none" /\ timer = "none" /\ raceResult = "none"
    /\ rawData = <<>> /\ normalizedData = <<>>
    /\ filterState = EmptyFilterState /\ checkboxes = NoCheckboxes
    /\ filteredData = <<>> /\ dashboardUpdated = FALSE /\ views = NoViews
    /\ dashboardVisible = FALSE /\ errorMessage = "" /\ statusText = ""
    /\ userActions = 0

\* the dashboard page is not open
DashboardOff ==
    /\ db = TRUE /\ snapshot = <<>> /\ pc = "off"
    /\ query = "none" /\ timer = "none" /\ raceResult = "none"
    /\ rawData = <<>> /\ normalizedData = <<>>
    /\ filterState = EmptyFilterState /\ checkboxes = NoCheckboxes
    /\ filteredData = <<>> /\ dashboardUpdated = FALSE /\ views = NoViews
    /\ dashboardVisible = FALSE /\ errorMessage = "" /\ statusText = ""
    /\ userActions = 0

\* the admin page with a spreadsheet chosen (lines 598-604) and an empty collection
AdminReady(sheets) ==
    /\ jsonData \in sheets
    /\ upc = "idle" /\ cleanRecords = <<>>
    /\ i = 0 /\ addedCount = 0 /\ progress = 0
    /\ store = <<>> /\ uploadResult = "none" /\ uploads = 0
    /\ committed = <<>> /\ storeAtStart = <<>> /\ firstSuccessStore = <<>>
    /\ successes = 0

\* the admin page is not open
AdminOff ==
    /\ jsonData = <<>>
    /\ upc = "off" /\ cleanRecords = <<>>
    /\ i = 0 /\ addedCount = 0 /\ progress = 0
    /\ store = <<>> /\ uploadResult = "none" /\ uploads = 0
    /\ committed = <<>> /\ storeAtStart = <<>> /\ firstSuccessStore = <<>>
    /\ successes = 0

MedianOff == arr = <<>> /\ medians = NoMedians

InitLoad ==
    /\ page = "dashboard" /\ tz \in TzOffsets
    /\ DashboardLoading(SeqsUpTo(StoreDocs, MaxRows))
    /\ AdminOff /\ MedianOff

InitUpload ==
    /\ page = "admin" /\ tz \in TzOffsets
    /\ DashboardOff /\ MedianOff
    /\ AdminReady(SeqsUpTo(AdminRows, MaxRows))

\* both pages, each on inputs of every type
Init == InitLoad \/ InitUpload

\* the dashboard page on well-formed documents, the filters in use
InitFilter ==
    /\ page = "dashboard" /\ tz \in TzOffsets
    /\ DashboardLoading(SeqsUpTo(FilterDocs, MaxFilterRows))
    /\ db = TRUE
    /\ AdminOff /\ MedianOff

\* the dashboard page on sales that spread over bins and months
InitCharts ==
    /\ page = "dashboard" /\ tz \in TzOffsets
    /\ DashboardLoading(SeqsUpTo(ChartDocs, MaxChartRows))
    /\ db = TRUE
    /\ AdminOff /\ MedianOff

\* median on every short array
InitMedian ==
    /\ page = "median" /\ tz = 0
    /\ DashboardOff /\ AdminOff
    /\ arr \in SeqsUpTo(MedianValues, MaxArr)
    /\ medians = NoMedians

-----------------------------------------------------------------------------
(* Dashboard page: fetchDataFromFirestore, src/app.js 61-130 *)

\* a race that the last promise to settle decides
RaceLastSettled(current, outcome) == outcome
\* Promise.race: the first promise to settle decides, later ones are ignored
RaceSettled(current, outcome) == IF current = "none" THEN outcome ELSE current

\* lines 71 and 124-128: loadingText shows the message of the error
ShowError(message) == errorMessage' = message

\* lines 61-87: up to the await of the race
FetchStart ==
    /\ pc = "loading"
    /\ IF ~db
       THEN /\ ShowError("Firebase DB not initialized.")
            /\ pc' = "threw"
            /\ UNCHANGED <<query, timer>>
       ELSE /\ query' = "pending"
            /\ timer' = "armed"
            /\ pc' = "race"
            /\ UNCHANGED errorMessage
    /\ UNCHANGED <<page, tz, db, snapshot, raceResult, rawData, normalizedData,
                   filterState, checkboxes, filteredData, dashboardUpdated, views,
                   dashboardVisible, statusText, userActions, adminVars, medianVars>>

\* line 85: the query answers
QueryAnswers ==
    /\ query = "pending"
    /\ query' = "answered"
    /\ raceResult' = RaceSettled(raceResult, "snapshot")
    /\ UNCHANGED <<page, tz, db, snapshot, pc, timer, rawData, normalizedData,
                   filterState, checkboxes, filteredData, dashboardUpdated, views,
                   dashboardVisible, errorMessage, statusText, userActions,
                   adminVars, medianVars>>

\* line 85: the query fails in transport
QueryFails ==
    /\ query = "pending"
    /\ query' = "failed"
    /\ raceResult' = RaceSettled(raceResult, "error")
    /\ UNCHANGED <<page, tz, db, snapshot, pc, timer, rawData, normalizedData,
                   filterState, checkboxes, filteredData, dashboardUpdated, views,
                   dashboardVisible, errorMessage, statusText, userActions,
                   adminVars, medianVars>>

\* lines 78-80: the 20 s timer fires
TimeoutFires ==
    /\ timer = "armed"
    /\ timer' = "fired"
    /\ raceResult' = RaceSettled(raceResult, "timeout")
    /\ UNCHANGED <<page, tz, db, snapshot, pc, query, rawData, normalizedData,
                   filterState, checkboxes, filteredData, dashboardUpdated, views,
                   dashboardVisible, errorMessage, statusText, userActions,
                   adminVars, medianVars>>

\* lines 84-99 and 124-128: the await of the race resumes
FetchResume ==
    /\ pc = "race"
    /\ raceResult # "none"
    /\ IF raceResult # "snapshot"
       THEN /\ ShowError(IF raceResult = "timeout" THEN "Connection timed out."
                                                     ELSE "transport error")
            /\ pc' = "failed"
            /\ UNCHANGED statusText
       ELSE IF snapshot = <<>>
       THEN /\ statusText' = "No Data"
            /\ pc' = "nodata"
            /\ UNCHANGED errorMessage
       ELSE /\ pc' = "parse"
            /\ UNCHANGED <<errorMessage, statusText>>
    /\ UNCHANGED <<page, tz, db, snapshot, query, timer, raceResult, rawData,
                   normalizedData, filterState, checkboxes, filteredData,
                   dashboardUpdated, views, dashboardVisible, userActions,
                   adminVars, medianVars>>

\* lines 101-122 and 133-134: the documents are parsed and processData is
\* entered, up to its first yield
FetchParse ==
    /\ pc = "parse"
    /\ pc' = "normalize"
    /\ UNCHANGED <<page, tz, db, snapshot, query, timer, raceResult, rawData,
                   normalizedData, filterState, checkboxes, filteredData,
                   dashboardUpdated, views, dashboardVisible, errorMessage, statusText,
                   userActions, adminVars, medianVars>>

-----------------------------------------------------------------------------
(* Dashboard page: processData, src/app.js 132-241 *)

\* lines 136-175
ProcNormalize ==
    /\ pc = "normalize"
    /\ rawData' = NormalizedData(ParsedData(snapshot), tz)
    /\ normalizedData' = rawData'
    /\ pc' = "dedup"
    /\ UNCHANGED <<page, tz, db, snapshot, query, timer, raceResult,
                   filterState, checkboxes, filteredData, dashboardUpdated, views,
                   dashboardVisible, errorMessage, statusText, userActions,
                   adminVars, medianVars>>

\* lines 177-191; a TypeError of line 181 leaves processData and reaches the
\* catch of fetchDataFromFirestore (lines 124-128)
ProcDedup ==
    /\ pc = "dedup"
    /\ IF DedupThrows(rawData)
       THEN /\ ShowError("TypeError")
            /\ pc' = "failed"
            /\ UNCHANGED rawData
       ELSE /\ rawData' = Deduplicated(rawData)
            /\ pc' = "filters"
            /\ UNCHANGED errorMessage
    /\ UNCHANGED <<page, tz, db, snapshot, query, timer, raceResult, normalizedData,
                   filterState, checkboxes, filteredData, dashboardUpdated, views,
                   dashboardVisible, statusText, userActions, adminVars, medianVars>>

\* lines 193-204: the default selection and populateFilters
ProcFilters ==
    /\ pc = "filters"
    /\ filterState' = DefaultFilterState(rawData)
    /\ checkboxes' = RenderedCheckboxes(rawData)
    /\ pc' = "kpis"
    /\ UNCHANGED <<page, tz, db, snapshot, query, timer, raceResult, rawData,
                   normalizedData, filteredData, dashboardUpdated, views,
                   dashboardVisible, errorMessage, statusText, userActions,
                   adminVars, medianVars>>

\* lines 350-366, 376-427, 428-462, 464-520, 522-560: a view drawn from data;
\* the trend and the distribution charts keep what they plot
Drawn(view, data) ==
    [drawn |-> TRUE, records |-> data,
     chart |-> CASE view = "trend" -> renderTrendChart(data)
                 [] view = "dist" -> renderDistChart(data)
                 [] OTHER -> <<>>]

\* one rendering stage of lines 205-224: the view is drawn from rawData, then
\* the next yield
RenderStage(at, view, next) ==
    /\ pc = at
    /\ views' = [views EXCEPT ![view] = Drawn(view, rawData)]
    /\ pc' = next
    /\ UNCHANGED <<page, tz, db, snapshot, query, timer, raceResult, rawData,
                   normalizedData, filterState, checkboxes, filteredData,
                   dashboardUpdated, dashboardVisible, errorMessage, statusText,
                   userActions, adminVars, medianVars>>

\* lines 205-208
ProcKPIs == RenderStage("kpis", "kpi", "trend")
\* lines 209-212
ProcTrend == RenderStage("trend", "trend", "dist")
\* lines 213-216
ProcDist == RenderStage("dist", "dist", "city")
\* lines 217-220
ProcCity == RenderStage("city", "city", "table")
\* lines 221-224
ProcTable == RenderStage("table", "table", "scatter")

\* lines 225-234: renderScatterChart is not defined; the ReferenceError is
\* caught in place and the run goes on to "Done!"
ProcScatter ==
    /\ pc = "scatter"
    /\ pc' = "final"
    /\ UNCHANGED <<page, tz, db, snapshot, query, timer, raceResult, rawData,
                   normalizedData, filterState, checkboxes, filteredData,
                   dashboardUpdated, views, dashboardVisible, errorMessage, statusText,
                   userActions, adminVars, medianVars>>

\* lines 236-240
ProcFinal ==
    /\ pc = "final"
    /\ dashboardVisible' = TRUE
    /\ statusText' = "Live Data"
    /\ pc' = "done"
    /\ UNCHANGED <<page, tz, db, snapshot, query, timer, raceResult, rawData,
                   normalizedData, filterState, checkboxes, filteredData,
                   dashboardUpdated, views, errorMessage, userActions,
                   adminVars, medianVars>>

-----------------------------------------------------------------------------
(* Dashboard page: the filter handlers, src/app.js 289-347 *)

\* lines 329-347: every view but the scatter chart is redrawn from filteredData
UpdatedDashboard(fs) ==
    LET filtered == FilterRecords(rawData, fs)
    IN  /\ filteredData' = filtered
        /\ dashboardUpdated' = TRUE
        /\ views' = [view \in DOMAIN views |-> Drawn(view, filtered)]

\* lines 272-282 and 289-301: a click on the checkbox of stateKey whose value
\* attribute is text
handleFilterChange(stateKey, text) ==
    LET checked == ~checkboxes[stateKey][text]
        val == CheckboxValue(text)
    IN  /\ checkboxes' = [checkboxes EXCEPT ![stateKey][text] = checked]
        /\ filterState' = [filterState EXCEPT
                              ![stateKey] = ToggledSelection(@, val, checked)]
        /\ UpdatedDashboard(filterState')

\* lines 309-323
clearFilter(stateKey) ==
    /\ filterState' = [filterState EXCEPT ![stateKey] = <<>>]
    /\ checkboxes' = [checkboxes EXCEPT
                         ![stateKey] = [text \in DOMAIN @ |-> FALSE]]
    /\ UpdatedDashboard(filterState')

\* the inputs exist from populateFilters on (line 200)
FiltersRendered == pc \in {"kpis", "trend", "dist", "city", "table", "scatter", "final", "done"}

UserToggles ==
    /\ FiltersRendered
    /\ userActions < MaxUserActions
    /\ \E stateKey \in StateKeys : \E text \in DOMAIN checkboxes[stateKey] :
          handleFilterChange(stateKey, text)
    /\ userActions' = userActions + 1
    /\ UNCHANGED <<page, tz, db, snapshot, pc, query, timer, raceResult, rawData,
                   normalizedData, dashboardVisible, errorMessage, statusText,
                   adminVars, medianVars>>

UserClears ==
    /\ FiltersRendered
    /\ userActions < MaxUserActions
    /\ \E stateKey \in StateKeys : clearFilter(stateKey)
    /\ userActions' = userActions + 1
    /\ UNCHANGED <<page, tz, db, snapshot, pc, query, timer, raceResult, rawData,
                   normalizedData, dashboardVisible, errorMessage, statusText,
                   adminVars, medianVars>>

-----------------------------------------------------------------------------
(* Admin page: handleFileUpload and uploadDataToFirestore, src/app.js 606-746 *)

\* lines 606-626 and 665-732: the chosen file is read, its rows are
\* normalised and the first batch is sent; a TypeError of the map reaches the
\* catch of lines 628-632
UploadStart ==
    /\ upc \in {"idle", "done", "failed"}
    /\ uploads < MaxUploads
    /\ uploads' = uploads + 1
    /\ progress' = 0
    /\ addedCount' = 0
    /\ i' = 0
    /\ committed' = <<>>
    /\ storeAtStart' = store
    /\ IF MapThrows(jsonData)
       THEN /\ cleanRecords' = <<>>
            /\ uploadResult' = "TypeError"
            /\ upc' = "failed"
            /\ UNCHANGED <<firstSuccessStore, successes>>
       ELSE /\ cleanRecords' = CleanRecordsOf(jsonData, tz)
            /\ IF Len(cleanRecords') = 0
               THEN /\ uploadResult' = "success"
                    /\ upc' = "done"
                    /\ firstSuccessStore' = IF successes = 0 THEN store ELSE firstSuccessStore
                    /\ successes' = successes + 1
               ELSE /\ uploadResult' = "none"
                    /\ upc' = "committing"
                    /\ UNCHANGED <<firstSuccessStore, successes>>
    /\ UNCHANGED <<page, tz, jsonData, store, dashVars, medianVars>>

\* lines 732-742: the batch commits; the next batch is sent, or the loop ends
\* and success is shown
CommitSucceeds ==
    /\ upc = "committing"
    /\ LET chunk == Chunk(cleanRecords, i)
           total == Len(cleanRecords)
       IN  /\ store' = CommittedBatch(store, chunk)
           /\ committed' = Append(committed, i)
           /\ addedCount' = addedCount + Len(chunk)
           /\ progress' = Percent(i, Len(chunk), total)
           /\ i' = i + batchSize
           /\ IF i + batchSize < total
              THEN /\ UNCHANGED <<upc, uploadResult, firstSuccessStore, successes>>
              ELSE /\ upc' = "done"
                   /\ uploadResult' = "success"
                   /\ firstSuccessStore' = IF successes = 0 THEN store' ELSE firstSuccessStore
                   /\ successes' = successes + 1
    /\ UNCHANGED <<page, tz, jsonData, cleanRecords, uploads, storeAtStart,
                   dashVars, medianVars>>

\* a failed batch that is skipped, the loop going on with the next one
CommitFailsAndContinues ==
    /\ upc = "committing"
    /\ i' = i + batchSize
    /\ IF i + batchSize < Len(cleanRecords)
       THEN UNCHANGED <<upc, uploadResult, firstSuccessStore, successes>>
       ELSE /\ upc' = "done"
            /\ uploadResult' = "success"
            /\ firstSuccessStore' = IF successes = 0 THEN store ELSE firstSuccessStore
            /\ successes' = successes + 1
    /\ UNCHANGED <<page, tz, jsonData, cleanRecords, addedCount, progress, store,
                   uploads, committed, storeAtStart, dashVars, medianVars>>
\* line 732 rejects: nothing of the batch is written, the error leaves the
\* loop and is shown by lines 628-632
CommitFails ==
    /\ upc = "committing"
    /\ upc' = "failed"
    /\ uploadResult' = "commit error"
    /\ UNCHANGED <<page, tz, jsonData, cleanRecords, i, addedCount, progress, store,
                   uploads, committed, storeAtStart, firstSuccessStore, successes,
                   dashVars, medianVars>>

-----------------------------------------------------------------------------
(* The median helpers applied to arr *)

\* line 360
KpiMedian ==
    /\ page = "median" /\ medians.kpi = <<>>
    /\ medians' = [medians EXCEPT !.kpi = <<median_updateKPIs(arr)>>]
    /\ arr' = ArrayAfterMedian(arr)
    /\ UNCHANGED <<page, tz, dashVars, adminVars>>

\* line 395
TrendMedian ==
    /\ page = "median" /\ medians.trend = <<>>
    /\ medians' = [medians EXCEPT !.trend = <<median_renderTrendChart(arr)>>]
    /\ arr' = ArrayAfterMedian(arr)
    /\ UNCHANGED <<page, tz, dashVars, adminVars>>

\* line 485
CityMedian ==
    /\ page = "median" /\ medians.city = <<>>
    /\ medians' = [medians EXCEPT !.city = <<median_renderCityChart(arr)>>]
    /\ arr' = ArrayAfterMedian(arr)
    /\ UNCHANGED <<page, tz, dashVars, adminVars>>

-----------------------------------------------------------------------------
(* Specifications *)

Fetch == FetchStart \/ QueryAnswers \/ QueryFails \/ TimeoutFires \/ FetchResume \/ FetchParse
Process ==
    \/ ProcNormalize \/ ProcDedup \/ ProcFilters \/ ProcKPIs \/ ProcTrend
    \/ ProcDist \/ ProcCity \/ ProcTable \/ ProcScatter \/ ProcFinal
Upload == UploadStart \/ CommitSucceeds \/ CommitFails

\* a load of the dashboard or an admin session, on inputs of every type
Next == Fetch \/ Process \/ Upload
Spec == Init /\ [][Next]_vars

\* a load of the dashboard with the user at the filters
NextFilter == Fetch \/ Process \/ UserToggles \/ UserClears
SpecFilter == InitFilter /\ [][NextFilter]_vars

\* a load of the dashboard, the charts drawn
NextCharts == Fetch \/ Process
SpecCharts == InitCharts /\ [][NextCharts]_vars

\* the three median helpers on one array
NextMedian == KpiMedian \/ TrendMedian \/ CityMedian
SpecMedian == InitMedian /\ [][NextMedian]_vars

-----------------------------------------------------------------------------
(* Claims *)

\* the subsequence of seq at the positions in keep
RECURSIVE SubseqAt(_, _)
SubseqAt(seq, keep) ==
    IF seq = <<>> THEN <<>>
    ELSE LET front == SubseqAt(SubSeq(seq, 1, Len(seq) - 1), keep)
         IN  IF Len(seq) \in keep THEN Append(front, seq[Len(seq)]) ELSE front

\* the fingerprint of a (date, address, price) triple: epoch value, address
\* lowercased and trimmed, price, joined by "-"
Fingerprint(date, address, price) ==
    IntToText(date.n) \o <<"-">> \o toLowerCase(trim(address.s)) \o <<"-">> \o JsString(price)

SameTriple(a, b) == a.date = b.date /\ a.address = b.address /\ a.price = b.price

PastNormalize ==
    {"dedup", "filters", "kpis", "trend", "dist", "city", "table", "scatter", "final", "done"}
PastDedup == PastNormalize \ {"dedup"}

\* the price a raw value is coerced to: text without $ and , parsed as a
\* number, 0 when absent or not a number
CoercedPrice(v) ==
    LET a == IF TypeOf(v) = "string" THEN parseFloat(StripCurrency(v.s)) ELSE v
    IN  IF LooseNull(a) \/ IsNaN(a) THEN Num(0) ELSE ToNumber(a)

RowQualifies(row) ==
    LET d == parseDate(row.ClosedDate)
    IN  /\ ~IsInvalidDate(d)
        /\ GreaterThanZero(CoercedPrice(row.Price))
        /\ getFullYear(d.n, tz) > 2000

DocQualifies(doc) ==
    LET d == DateOfDoc(doc)
    IN  /\ ~IsInvalidDate(d)
        /\ GreaterThanZero(CoercedPrice(doc.price))
        /\ getFullYear(d.n, tz) > 2000

\* C1: on the upload path and on the load path, the cleaned record set holds
\* exactly the raw rows, in order, whose date is valid, whose coerced price is
\* above 0 and whose year is above 2000.
C1_RetainedIffQualifies ==
    /\ (page = "admin" /\ upc \in {"committing", "done", "failed"}) =>
          LET q == SelectSeq(jsonData, RowQualifies)
          IN  /\ Len(cleanRecords) = Len(q)
              /\ \A k \in 1..Len(q) :
                    /\ cleanRecords[k].date = parseDate(q[k].ClosedDate)
                    /\ cleanRecords[k].price = CoercedPrice(q[k].Price)
    /\ (page = "dashboard" /\ pc \in PastNormalize) =>
          LET q == SelectSeq(snapshot, DocQualifies)
          IN  /\ Len(normalizedData) = Len(q)
              /\ \A k \in 1..Len(q) :
                    /\ normalizedData[k].date = DateOfDoc(q[k])
                    /\ ToNumber(normalizedData[k].price) = CoercedPrice(q[k].price)

\* C2: in-session deduplication returns the first record of each fingerprint,
\* in input order: no two output records share a fingerprint, every input
\* fingerprint is represented, and deduplicating the output changes nothing.
C2_DedupKeepsFirstOccurrences ==
    (page = "dashboard" /\ pc \in PastDedup) =>
        /\ rawData = SubseqAt(normalizedData,
                        {k \in 1..Len(normalizedData) :
                            \A j \in 1..(k - 1) :
                                DedupKey(normalizedData[j]) # DedupKey(normalizedData[k])})
        /\ \A a \in 1..Len(rawData) : \A b \in 1..Len(rawData) :
              a # b => DedupKey(rawData[a]) # DedupKey(rawData[b])
        /\ {DedupKey(rawData[k]) : k \in 1..Len(rawData)}
              = {DedupKey(normalizedData[k]) : k \in 1..Len(normalizedData)}
        /\ Deduplicated(rawData) = rawData

\* C2: a duplicate that is not adjacent to its first occurrence was removed
C2_Witness ==
    /\ page = "dashboard" /\ pc = "done"
    /\ Len(normalizedData) = 3 /\ Len(rawData) = 2
    /\ DedupKey(normalizedData[1]) = DedupKey(normalizedData[3])
    /\ normalizedData[1] # normalizedData[3]

\* C3: after an upload completes, two accepted rows with the same (date,
\* address, price) and different sqFt are one stored record under one
\* document id, holding the fields of the later row.
C3_LaterDuplicateWins ==
    (page = "admin" /\ upc = "done") =>
        \A a \in 1..Len(cleanRecords) : \A b \in 1..Len(cleanRecords) :
            (a < b /\ SameTriple(cleanRecords[a], cleanRecords[b])
                   /\ cleanRecords[a].sqFt # cleanRecords[b].sqFt) =>
                LET last == CHOOSE c \in 1..Len(cleanRecords) :
                                /\ SameTriple(cleanRecords[c], cleanRecords[b])
                                /\ \A e \in 1..Len(cleanRecords) :
                                      SameTriple(cleanRecords[e], cleanRecords[b]) => e <= c
                IN  /\ DocId(cleanRecords[a]) = DocId(cleanRecords[b])
                    /\ DocId(cleanRecords[b]) \in DOMAIN store
                    /\ store[DocId(cleanRecords[b])] = cleanRecords[last]
                    /\ Cardinality({id \in DOMAIN store :
                                       SameTriple(store[id], cleanRecords[b])}) = 1

ChunkOffsets == {o \in 0..Len(cleanRecords) : o % batchSize = 0 /\ o < Len(cleanRecords)}

RECURSIVE StoreAfterChunks(_, _)
StoreAfterChunks(docs, offsets) ==
    IF offsets = <<>> THEN docs
    ELSE StoreAfterChunks(CommittedBatch(docs, Chunk(cleanRecords, Head(offsets))),
                          Tail(offsets))

RECURSIVE ChunksJoined(_)
ChunksJoined(o) ==
    IF o >= Len(cleanRecords) THEN <<>>
    ELSE Chunk(cleanRecords, o) \o ChunksJoined(o + batchSize)

\* C5: the cleaned records are cut into consecutive chunks of at most
\* batchSize records that cover each record once; the committed chunks are
\* always the first ones in order, the chunk in flight is the next one, the
\* collection holds exactly the committed chunks' writes, and after a failed
\* commit nothing later is committed and no success is reported.
C5_ChunksCommitInOrder ==
    (page = "admin") =>
        /\ ChunksJoined(0) = cleanRecords
        /\ \A o \in ChunkOffsets : Len(Chunk(cleanRecords, o)) \in 1..batchSize
        /\ \A k \in 1..Len(committed) : committed[k] = (k - 1) * batchSize
        /\ \A k \in 1..Len(committed) : committed[k] \in ChunkOffsets
        /\ store = StoreAfterChunks(storeAtStart, committed)
        /\ upc = "committing" => i = Len(committed) * batchSize /\ i \in ChunkOffsets
        /\ upc = "failed" => uploadResult # "success"
        /\ uploadResult = "success" =>
              upc = "done" /\ {committed[k] : k \in 1..Len(committed)} = ChunkOffsets

\* C5: the second chunk failed after the first one committed
C5_Witness ==
    /\ page = "admin" /\ upc = "failed" /\ uploadResult = "commit error"
    /\ Len(committed) = 1 /\ i = batchSize
    /\ Cardinality(ChunkOffsets) = 2
    /\ store # storeAtStart

\* C6: on both paths the fingerprint is the fingerprint of the canonical
\* record's date, address and price, so records equal in these three have the
\* same fingerprint whichever column supplied the address.
C6_FingerprintOfCanonicalTriple ==
    /\ (page = "admin") =>
          /\ \A k \in 1..Len(cleanRecords) :
                cleanRecords[k].uniqueKey.s =
                    Fingerprint(cleanRecords[k].date, cleanRecords[k].address,
                                cleanRecords[k].price)
          /\ \A a \in 1..Len(cleanRecords) : \A b \in 1..Len(cleanRecords) :
                SameTriple(cleanRecords[a], cleanRecords[b]) =>
                    cleanRecords[a].uniqueKey = cleanRecords[b].uniqueKey
    /\ (page = "dashboard" /\ pc \in PastDedup) =>
          \A k \in 1..Len(normalizedData) :
              DedupKey(normalizedData[k]) =
                  Fingerprint(normalizedData[k].date, normalizedData[k].address,
                              normalizedData[k].price)

\* the values a filter dimension allows
Allowed(stateKey) == {filterState[stateKey][k] : k \in 1..Len(filterState[stateKey])}

RecordAllowed(d) == \A stateKey \in StateKeys : d[FieldOf(stateKey)] \in Allowed(stateKey)

\* C7: whatever the filter state, the filtered set of updateDashboard is the
\* ordered subsequence of the working set whose year, city, newConstruction
\* and insideCityLimits are each allowed; it is empty when an allowed set is.
C7_FilterIsConjunctive ==
    dashboardUpdated =>
        /\ filteredData = SubseqAt(rawData, {k \in 1..Len(rawData) : RecordAllowed(rawData[k])})
        /\ (\E stateKey \in StateKeys : Allowed(stateKey) = {}) => filteredData = <<>>

\* C7: one dimension was emptied while the other three still allow every record
C7_Witness ==
    /\ dashboardUpdated /\ Len(rawData) = 2
    /\ filterState.selectedCityLimits = <<>>
    /\ \A k \in 1..Len(rawData) :
          /\ rawData[k].year \in Allowed("selectedYears")
          /\ rawData[k].city \in Allowed("selectedCities")
          /\ rawData[k].newConstruction \in Allowed("selectedNewConstruction")
    /\ filteredData = <<>>

\* C8: the dashboard is visible only when the race was won by a non-empty
\* query result and processData reached its end; never after a timeout, a
\* transport error or an empty result, and never together with the error state.
C8_DashboardFailsClosed ==
    /\ dashboardVisible =>
          /\ raceResult = "snapshot" /\ snapshot # <<>>
          /\ pc = "done"
    /\ raceResult \in {"timeout", "error"} => ~dashboardVisible
    /\ ~(dashboardVisible /\ errorMessage # "")

\* C8: the query answered after the timeout had fired; the error is shown and
\* the dashboard is hidden
C8_Witness ==
    /\ page = "dashboard" /\ pc = "failed"
    /\ timer = "fired" /\ query = "answered" /\ raceResult = "timeout"
    /\ snapshot # <<>>
    /\ errorMessage = "Connection timed out."
    /\ ~dashboardVisible

\* C9: no raw row, whatever the types of its fields, makes normalisation on
\* the upload path or on the load path raise.
C9_NoRowAbortsRun == uploadResult # "TypeError" /\ errorMessage # "TypeError"

\* the permutations of a sequence
ArrangementsOf(a) ==
    {[k \in 1..Len(a) |-> a[p[k]]] :
        p \in {q \in [1..Len(a) -> 1..Len(a)] : \A x, y \in 1..Len(a) : x # y => q[x] # q[y]}}

IsAscending(a) == \A k \in 1..(Len(a) - 1) : a[k] <= a[k + 1]

\* the fraction m equals x when a has odd length and x is the middle of its
\* ascending sort, or a has even length and x is the sum of the two middle ones
IsMedianOf(m, a) ==
    LET sorted == CHOOSE q \in ArrangementsOf(a) : IsAscending(q)
        n == Len(a)
    IN  IF n = 0 THEN m.num = 0
        ELSE IF n % 2 = 1 THEN m.num = sorted[(n + 1) \div 2] * m.den
        ELSE 2 * m.num = (sorted[n \div 2] + sorted[n \div 2 + 1]) * m.den

C10_State ==
    /\ \A copy \in DOMAIN medians : \A k \in 1..Len(medians[copy]) :
          IsMedianOf(medians[copy][k], arr)
    /\ \A q \in ArrangementsOf(arr) :
          /\ median_updateKPIs(q) = median_updateKPIs(arr)
          /\ median_renderTrendChart(q) = median_renderTrendChart(arr)
          /\ median_renderCityChart(q) = median_renderCityChart(arr)
    /\ \A c1 \in DOMAIN medians : \A c2 \in DOMAIN medians :
          (medians[c1] # <<>> /\ medians[c2] # <<>>) => medians[c1] = medians[c2]
    /\ IsMedianOf(median_updateKPIs(<<>>), <<>>) /\ median_updateKPIs(<<>>).num = 0
    /\ median_updateKPIs(<<100>>) = Whole(100)
    /\ median_renderTrendChart(<<100>>) = Whole(100)
    /\ median_renderCityChart(<<100>>) = Whole(100)
    /\ median_updateKPIs(<<100, 300>>).num = 200 * median_updateKPIs(<<100, 300>>).den
    /\ median_renderTrendChart(<<100, 300>>).num = 200 * median_renderTrendChart(<<100, 300>>).den
    /\ median_renderCityChart(<<100, 300>>).num = 200 * median_renderCityChart(<<100, 300>>).den

\* C10: each of the three median helpers returns 0 for the empty array, the
\* middle of the ascending sort for an odd length and the mean of the two
\* middle elements for an even length, whatever the order of the input; the
\* three agree, and none of them changes the array it is given.
C10_MedianOfSort == []C10_State /\ [][arr' = arr]_vars

\* C10: the three helpers were applied to an unsorted array of even length
C10_Witness ==
    /\ arr = <<300, 100>>
    /\ medians.kpi = <<Half(400)>>
    /\ medians.trend = <<Half(400)>>
    /\ medians.city = <<Half(400)>>

\* the lower bound of the bucket of width 50000 that holds price p
BucketOf(p) == CHOOSE b \in {50000 * m : m \in 0..(p \div 50000 + 1)} : b <= p /\ p < b + 50000

BucketLabel(b) ==
    NatToText(b \div 1000) \o <<"k", "-">> \o NatToText((b + 50000) \div 1000) \o <<"k">>

\* the members of a finite set of numbers in ascending order
Ascending(S) ==
    CHOOSE q \in [1..Cardinality(S) -> S] : \A x, y \in 1..Cardinality(S) : x < y => q[x] < q[y]

RECURSIVE SumOfCounts(_)
SumOfCounts(chart) ==
    IF chart = <<>> THEN 0 ELSE Head(chart).count + SumOfCounts(Tail(chart))

Priced(prices) == [k \in 1..Len(prices) |-> [price |-> Num(prices[k])]]

\* C11: the histogram drawn by renderDistChart lists, in strictly ascending
\* order of lower bound, exactly the buckets floor(price / 50000) * 50000 that
\* hold at least one record, each with the number of records in it; the counts
\* sum to the number of records; prices 10000, 40000, 60000 give 0k-50k with
\* 2 and 50k-100k with 1 and nothing else.
C11_HistogramIsSparseAndAscending ==
    /\ views.dist.drawn =>
          LET data == views.dist.records
              chart == views.dist.chart
              PriceAt(k) == ToNumber(data[k].price).n
              bounds == Ascending({BucketOf(PriceAt(k)) : k \in 1..Len(data)})
          IN  /\ Len(chart) = Len(bounds)
              /\ \A b \in 1..Len(bounds) :
                    /\ chart[b].label = BucketLabel(bounds[b])
                    /\ chart[b].count =
                          Cardinality({k \in 1..Len(data) : BucketOf(PriceAt(k)) = bounds[b]})
                    /\ chart[b].count >= 1
              /\ SumOfCounts(chart) = Len(data)
    /\ renderDistChart(Priced(<<10000, 40000, 60000>>)) =
          << [label |-> <<"0", "k", "-", "5", "0", "k">>, count |-> 2],
             [label |-> <<"5", "0", "k", "-", "1", "0", "0", "k">>, count |-> 1] >>

\* C11: a histogram of three sales whose first bucket in order of arrival is
\* the highest, with an empty bucket between the two listed
C11_Witness ==
    /\ page = "dashboard" /\ pc = "done" /\ views.dist.drawn
    /\ Len(views.dist.records) = 3
    /\ ToNumber(views.dist.records[1].price).n = 120000
    /\ views.dist.chart =
          << [label |-> <<"0", "k", "-", "5", "0", "k">>, count |-> 2],
             [label |-> <<"1", "0", "0", "k", "-", "1", "5", "0", "k">>, count |-> 1] >>

\* C12: when a load has completed and the user has not touched the filters,
\* every record of the working set passes the filter state: its year, city,
\* newConstruction and insideCityLimits are each among the allowed values.
C12_DefaultFilterHidesNothing ==
    (page = "dashboard" /\ pc = "done" /\ userActions = 0) =>
        /\ \A k \in 1..Len(rawData) : RecordAllowed(rawData[k])
        /\ FilterRecords(rawData, filterState) = rawData

\* the value offered for stateKey whose checkbox shows text
Offered(stateKey, text) ==
    CHOOSE v \in {rawData[k][FieldOf(stateKey)] : k \in 1..Len(rawData)} : JsString(v) = text

\* the user's step is a click on the checkbox of stateKey showing text
Clicked(stateKey, text) ==
    /\ userActions' = userActions + 1
    /\ text \in DOMAIN checkboxes[stateKey]
    /\ checkboxes' = [checkboxes EXCEPT ![stateKey][text] = ~checkboxes[stateKey][text]]

\* C13: a click that unchecks a value removes exactly that value from its
\* dimension's allowed set and leaves no record carrying it in the filtered
\* set; a click that checks it adds exactly that value, so that off and on
\* again restores the allowed set and the filtered result. Values are those
\* of the records, also for a city named "2020".
C13_ToggleOffOnRestores ==
    [][\A stateKey \in StateKeys : \A text \in DOMAIN checkboxes[stateKey] :
          Clicked(stateKey, text) =>
              LET v == Offered(stateKey, text)
                  before == {filterState[stateKey][k] : k \in 1..Len(filterState[stateKey])}
                  after == {filterState'[stateKey][k] : k \in 1..Len(filterState'[stateKey])}
              IN  IF checkboxes[stateKey][text]
                  THEN /\ after = before \ {v}
                       /\ \A k \in 1..Len(filteredData') :
                             filteredData'[k][FieldOf(stateKey)] # v
                  ELSE after = before \cup {v}]_vars

\* C14: once a load has finished, whatever the user did at the filters while
\* it ran, the KPIs, each chart and the table show the filter applied to the
\* working set under the current filter state.
C14_ViewsShowFilteredSet ==
    (page = "dashboard" /\ pc = "done") =>
        \A view \in DOMAIN views :
            views[view].drawn =>
                views[view].records = FilterRecords(rawData, filterState)

\* the year a chart label YYYY-MM starts with
YearOfLabel(label) == parseInt(SubSeq(label, 1, 4))

\* C15: in every time zone the year part of the year-month key a record is
\* grouped under in the trend chart is the record's year field: every record
\* has a label of its year, and every label is of the year of some record.
C15_TrendKeyYearIsRecordYear ==
    (page = "dashboard" /\ views.trend.drawn) =>
        LET data == views.trend.records
            chart == views.trend.chart
        IN  /\ \A k \in 1..Len(data) : YearOfLabel(TrendKey(data[k])) = data[k].year
            /\ \A k \in 1..Len(data) : \E e \in 1..Len(chart) :
                  YearOfLabel(chart[e].label) = data[k].year
            /\ \A e \in 1..Len(chart) : \E k \in 1..Len(data) :
                  YearOfLabel(chart[e].label) = data[k].year

====
